---- MODULE Spec2Model ----
(***************************************************************************)
(* Model of fixieai/agents-ts/src/embed.ts: the Embed class, its inline    *)
(* constructor with the isURL guard, and the static fromUri() fetch path   *)
(* built on got(uri, {responseType: 'buffer'}).                            *)
(*                                                                         *)
(* Strings that the code inspects (base64Data, uri) are sequences of       *)
(* one-character strings; content types are opaque strings; response       *)
(* bodies are sequences of byte values 0..255.                             *)
(***************************************************************************)
EXTENDS Integers, Sequences, FiniteSets, TLC

(***************************************************************************)
(* Bounds of the exploration.                                              *)
(***************************************************************************)
\* number of constructor / fromUri calls that may be in flight together
MaxCalls == 2
\* longest base64Data string enumerated exhaustively over InlineAlphabet
MaxLen == 4
\* longest response body enumerated exhaustively over ByteSamples
MaxBody == 3
\* number of redirect answers the network gives in one run
MaxRedirectsServed == 2
\* number of transport failures and retryable answers the network gives in
\* one run (RetryLimit + 1 of them make one call give up)
MaxFailures == 3

\* got's default retry.limit, in force because fromUri passes no retry option
RetryLimit == 2

(***************************************************************************)
(* Characters.                                                             *)
(***************************************************************************)
Upper ==
    << "A","B","C","D","E","F","G","H","I","J","K","L","M",
       "N","O","P","Q","R","S","T","U","V","W","X","Y","Z" >>
Lower ==
    << "a","b","c","d","e","f","g","h","i","j","k","l","m",
       "n","o","p","q","r","s","t","u","v","w","x","y","z" >>
Digits == << "0","1","2","3","4","5","6","7","8","9" >>

Range(f) == { f[i] : i \in DOMAIN f }

Alpha == Range(Upper) \cup Range(Lower)
DigitSet == Range(Digits)
SetMin(S) == CHOOSE x \in S : \A y \in S : x <= y
SetMax(S) == CHOOSE x \in S : \A y \in S : x >= y

Positions(s, chars) == { i \in 1..Len(s) : s[i] \in chars }
\* the prefix of s before the first character of chars (all of s when none)
TakeUntil(s, chars) ==
    IF Positions(s, chars) = {} THEN s
    ELSE SubSeq(s, 1, SetMin(Positions(s, chars)) - 1)
\* s without its leading run of characters of chars
DropWhile(s, chars) ==
    LET rest == { i \in 1..Len(s) : s[i] \notin chars }
    IN IF rest = {} THEN << >> ELSE SubSeq(s, SetMin(rest), Len(s))
ToLower(ch) ==
    IF ch \in Range(Upper)
    THEN Lower[CHOOSE i \in 1..26 : Upper[i] = ch]
    ELSE ch
LowerCase(s) == [ i \in 1..Len(s) |-> ToLower(s[i]) ]

RECURSIVE DecValue(_)
DecValue(ds) ==
    IF ds = << >> THEN 0
    ELSE 10 * DecValue(SubSeq(ds, 1, Len(ds) - 1))
         + (CHOOSE i \in 1..10 : Digits[i] = ds[Len(ds)]) - 1

(***************************************************************************)
(* new URL(str) without a base URL: the WHATWG basic URL parser, as far as *)
(* it decides success or failure.  Path, query and fragment never fail and *)
(* are not modelled.  Not modelled: IPv6 literals, percent-decoding and    *)
(* IDNA of domains, hexadecimal/octal IPv4 parts; no input of the model    *)
(* holds "[", "%", a non-ASCII character or a digit run with a leading 0.  *)
(***************************************************************************)
C0OrSpace == { " ", "\t", "\n", "\r" }
TabOrNewline == { "\t", "\n", "\r" }
SchemeChars == Alpha \cup DigitSet \cup { "+", "-", "." }
SpecialSchemes ==
    { <<"h","t","t","p">>, <<"h","t","t","p","s">>, <<"f","t","p">>,
      <<"w","s">>, <<"w","s","s">>, <<"f","i","l","e">> }
FileScheme == <<"f","i","l","e">>
ForbiddenHostCodePoints ==
    { " ", "#", "/", ":", "<", ">", "?", "@", "[", "\\", "]", "^", "|",
      "\t", "\n", "\r" }
ForbiddenDomainCodePoints == ForbiddenHostCodePoints \cup { "%" }

\* leading and trailing C0 control or space removed, then every tab or newline
StripInput(str) ==
    LET keep == { i \in 1..Len(str) : str[i] \notin C0OrSpace }
        trimmed == IF keep = {} THEN << >>
                   ELSE SubSeq(str, SetMin(keep), SetMax(keep))
    IN SelectSeq(trimmed, LAMBDA ch : ch \notin TabOrNewline)

\* scheme start state and scheme state: the index of the ":" that ends the
\* scheme, or 0 when the input has no scheme (failure, there being no base)
SchemeEnd(s) ==
    IF s = << >> \/ s[1] \notin Alpha \/ Positions(s, {":"}) = {} THEN 0
    ELSE LET i == SetMin(Positions(s, {":"}))
         IN IF \A j \in 2..(i - 1) : s[j] \in SchemeChars THEN i ELSE 0

\* the dot-separated labels of a host
RECURSIVE Labels(_)
Labels(h) ==
    IF Positions(h, {"."}) = {} THEN << h >>
    ELSE LET i == SetMin(Positions(h, {"."}))
         IN << SubSeq(h, 1, i - 1) >> \o Labels(SubSeq(h, i + 1, Len(h)))
IsNumber(l) == l # << >> /\ \A i \in 1..Len(l) : l[i] \in DigitSet

\* IPv4 parser (decimal parts): at most four parts, every part a number, every
\* part but the last below 256, the last below 256^(5 - parts)
IPv4OK(h) ==
    LET raw == Labels(h)
        parts == IF Len(raw) > 1 /\ raw[Len(raw)] = << >>
                 THEN SubSeq(raw, 1, Len(raw) - 1) ELSE raw
        n == Len(parts)
    IN /\ n <= 4
       /\ \A i \in 1..n : IsNumber(parts[i])
       /\ \A i \in 1..(n - 1) : DecValue(parts[i]) < 256
       /\ CASE n = 1 -> DecValue(parts[n]) \div 256 < 16777216
            [] n = 2 -> DecValue(parts[n]) < 16777216
            [] n = 3 -> DecValue(parts[n]) < 65536
            [] OTHER -> DecValue(parts[n]) < 256
\* ends-in-a-number checker
EndsInNumber(h) ==
    LET raw == Labels(h)
        parts == IF Len(raw) > 1 /\ raw[Len(raw)] = << >>
                 THEN SubSeq(raw, 1, Len(raw) - 1) ELSE raw
    IN IsNumber(parts[Len(parts)])

\* host parser: a domain for a special scheme, an opaque host otherwise
HostOK(h, special) ==
    IF special
    THEN /\ Positions(h, ForbiddenDomainCodePoints) = {}
         /\ (EndsInNumber(h) => IPv4OK(h))
    ELSE Positions(h, ForbiddenHostCodePoints) = {}

\* port state: digits only, at most 65535 (an empty port is no port)
PortOK(p) ==
    /\ \A i \in 1..Len(p) : p[i] \in DigitSet
    /\ DecValue(p) <= 65535

\* host state and port state on "host" or "host:port"
HostPortOK(hp, special) ==
    LET colons == Positions(hp, {":"})
        host == TakeUntil(hp, {":"})
    IN IF colons # {}
       THEN /\ host # << >>
            /\ HostOK(host, special)
            /\ PortOK(SubSeq(hp, SetMin(colons) + 1, Len(hp)))
       ELSE /\ (special => host # << >>)
            /\ HostOK(host, special)

\* authority state: credentials end at the last "@"; an "@" followed by no
\* host is a failure
AuthorityOK(a, special) ==
    LET ats == Positions(a, {"@"})
    IN IF ats = {} THEN HostPortOK(a, special)
       ELSE LET hp == SubSeq(a, SetMax(ats) + 1, Len(a))
            IN hp # << >> /\ HostPortOK(hp, special)

\* file state, file slash state, file host state
FileOK(rest) ==
    IF Len(rest) >= 2 /\ rest[1] \in {"/", "\\"} /\ rest[2] \in {"/", "\\"}
    THEN LET host == TakeUntil(SubSeq(rest, 3, Len(rest)), {"/", "\\", "?", "#"})
         IN host = << >> \/ HostOK(host, TRUE)
    ELSE TRUE

\* what follows "scheme:"
AfterSchemeOK(scheme, rest) ==
    IF scheme = FileScheme THEN FileOK(rest)
    ELSE IF scheme \in SpecialSchemes
    THEN \* special authority (ignore) slashes state, then authority state
         AuthorityOK(TakeUntil(DropWhile(rest, {"/", "\\"}), {"/", "\\", "?", "#"}), TRUE)
    ELSE IF Len(rest) >= 2 /\ rest[1] = "/" /\ rest[2] = "/"
    THEN \* path or authority state, then authority state
         AuthorityOK(TakeUntil(SubSeq(rest, 3, Len(rest)), {"/", "?", "#"}), FALSE)
    ELSE \* path state or opaque path state: never fails
         TRUE

UrlParses(str) ==
    LET s == StripInput(str)
        i == SchemeEnd(s)
    IN /\ i # 0
       /\ AfterSchemeOK(LowerCase(SubSeq(s, 1, i - 1)), SubSeq(s, i + 1, Len(s)))

\* isURL gone wrong: only the special schemes count as URLs
isURLSpecialOnly(str) ==
    /\ UrlParses(str)
    /\ LET s == StripInput(str)
       IN LowerCase(SubSeq(s, 1, SchemeEnd(s) - 1)) \in SpecialSchemes
\* isURL gone wrong: any string holding a ":" counts as a URL
isURLAnyColon(str) == Positions(str, {":"}) # {}
\* isURL gone wrong: parsed against a base URL, every string is a URL
isURLWithBase(str) == TRUE

\* function isURL(str): true when new URL(str) does not throw
isURL(str) == UrlParses(str)

(***************************************************************************)
(* Base64.                                                                 *)
(***************************************************************************)
Base64Alphabet == Upper \o Lower \o Digits \o << "+", "/" >>
Base64Char(sextet) == Base64Alphabet[sextet + 1]

\* toString('base64') gone wrong: the padding is left out
RECURSIVE Base64EncodeNoPad(_)
Base64EncodeNoPad(bytes) ==
    IF Len(bytes) = 0 THEN << >>
    ELSE IF Len(bytes) = 1
    THEN << Base64Char(bytes[1] \div 4), Base64Char((bytes[1] % 4) * 16) >>
    ELSE IF Len(bytes) = 2
    THEN << Base64Char(bytes[1] \div 4),
            Base64Char((bytes[1] % 4) * 16 + bytes[2] \div 16),
            Base64Char((bytes[2] % 16) * 4) >>
    ELSE << Base64Char(bytes[1] \div 4),
            Base64Char((bytes[1] % 4) * 16 + bytes[2] \div 16),
            Base64Char((bytes[2] % 16) * 4 + bytes[3] \div 64),
            Base64Char(bytes[3] % 64) >>
         \o Base64EncodeNoPad(SubSeq(bytes, 4, Len(bytes)))

\* Buffer.prototype.toString('base64'): RFC 4648 with "=" padding
RECURSIVE Base64Encode(_)
Base64Encode(bytes) ==
    IF Len(bytes) = 0 THEN << >>
    ELSE IF Len(bytes) = 1
    THEN << Base64Char(bytes[1] \div 4),
            Base64Char((bytes[1] % 4) * 16), "=", "=" >>
    ELSE IF Len(bytes) = 2
    THEN << Base64Char(bytes[1] \div 4),
            Base64Char((bytes[1] % 4) * 16 + bytes[2] \div 16),
            Base64Char((bytes[2] % 16) * 4), "=" >>
    ELSE << Base64Char(bytes[1] \div 4),
            Base64Char((bytes[1] % 4) * 16 + bytes[2] \div 16),
            Base64Char((bytes[2] % 16) * 4 + bytes[3] \div 64),
            Base64Char(bytes[3] % 64) >>
         \o Base64Encode(SubSeq(bytes, 4, Len(bytes)))

Base64Index(ch) == (CHOOSE i \in 1..64 : Base64Alphabet[i] = ch) - 1

\* a well-formed base64 text: groups of four alphabet characters, the last
\* group padded with at most two "="
IsBase64(s) ==
    LET n == Len(s)
        pad == IF n >= 2 /\ s[n] = "=" /\ s[n - 1] = "=" THEN 2
               ELSE IF n >= 1 /\ s[n] = "=" THEN 1 ELSE 0
    IN /\ n % 4 = 0
       /\ \A i \in 1..(n - pad) : s[i] \in Range(Base64Alphabet)

DecodeError == "DecodeError"

\* the raw-byte view of a stored base64 text: its bytes, or DecodeError
RECURSIVE Base64DecodeGroups(_)
Base64DecodeGroups(s) ==
    IF Len(s) = 0 THEN << >>
    ELSE LET a == Base64Index(s[1])
             b == Base64Index(s[2])
         IN IF s[3] = "=" THEN << a * 4 + b \div 16 >>
            ELSE LET c == Base64Index(s[3])
                 IN IF s[4] = "="
                    THEN << a * 4 + b \div 16, (b % 16) * 16 + c \div 4 >>
                    ELSE << a * 4 + b \div 16, (b % 16) * 16 + c \div 4,
                            (c % 4) * 64 + Base64Index(s[4]) >>
                         \o Base64DecodeGroups(SubSeq(s, 5, Len(s)))
asBytes(base64Data) ==
    IF IsBase64(base64Data) THEN Base64DecodeGroups(base64Data) ELSE DecodeError


(***************************************************************************)
(* Inputs.                                                                 *)
(***************************************************************************)
ContentTypes == { "image/png", "text/plain" }

RECURSIVE SeqsUpTo(_, _)
SeqsUpTo(S, n) ==
    IF n = 0 THEN { << >> }
    ELSE LET shorter == SeqsUpTo(S, n - 1)
         IN shorter \cup { Append(q, x) : q \in { r \in shorter : Len(r) = n - 1 }, x \in S }

HttpsExample ==
    << "h","t","t","p","s",":","/","/","e","x","a","m","p","l","e",".","c","o","m","/","x" >>

\* base64Data strings checked exhaustively up to MaxLen: base64 characters, the
\* padding character, ":" (what makes a scheme) and "!" (outside base64)
InlineAlphabet == { "A", "h", "1", "+", "/", "=", ":", "!" }
\* longer base64Data strings: URLs, strings the URL parser rejects late
\* (empty host, port out of range, host missing before the port), a URL behind
\* leading whitespace, and base64 texts
InlineExamples ==
    { HttpsExample,
      << "h","t","t","p","s",":","/","/" >>,
      << "h","t","t","p",":","/","/","a",":","9","9","9","9","9" >>,
      << "h","t","t","p",":","/","/","1",".","2",".","3",".","4",".","5" >>,
      << "h",":","/","/",":","1" >>,
      << "h",":","/","/","a","@" >>,
      << "h",":","/","/","a",":","8","0","/","!" >>,
      << " ","h",":","A" >>,
      << "d","a","t","a",":","A","A","=","=" >>,
      << "a","G","V","s","b","G","8","=" >>,
      << "a","G","V","s","b","G","8","!" >> }
InlineData == SeqsUpTo(InlineAlphabet, MaxLen) \cup InlineExamples
\* the base64Data strings used where several calls run together
InlineSamples == { << "A","A","=","=" >>, << "h",":","A" >> }

\* uri arguments of fromUri: a fetchable URL, a URL got has no protocol
\* handler for, and a string that is no URL
Uris == { HttpsExample, << "h",":","A" >>, << "A","!","=","=" >> }

\* byte values of response bodies checked exhaustively up to MaxBody
ByteSamples == { 0, 3, 224, 255 }
Bodies == SeqsUpTo(ByteSamples, MaxBody)
\* the bodies used where several calls run together
BodySamples == { << >>, << 3, 224 >> }

\* response statuses the network answers with
Statuses == { 200, 201, 302, 304, 404, 503 }
\* the statuses used where several calls run together
StatusSamples == { 200, 302, 404 }
\* the ways a request fails in transport: no response at all, or a response
\* whose body broke off
FailureKinds == { "error", "aborted" }

(***************************************************************************)
(* got(uri, {responseType: 'buffer'}) under its default options.           *)
(***************************************************************************)
\* protocols got has a request function for
GotProtocols == { <<"h","t","t","p">>, <<"h","t","t","p","s">> }
\* got normalizes the url first: no request is made for a string that is no
\* URL or whose protocol is unsupported
GotAcceptsUrl(uri) ==
    /\ isURL(uri)
    /\ LET s == StripInput(uri)
       IN LowerCase(SubSeq(s, 1, SchemeEnd(s) - 1)) \in GotProtocols
\* default retry.statusCodes (retry.methods holds GET)
GotRetryStatusCodes == { 408, 413, 429, 500, 502, 503, 504, 521, 522, 524 }
\* followRedirect: a redirect status whose response has a Location header
GotRedirectStatusCodes == { 301, 302, 303, 307, 308 }
\* throwHttpErrors: a response is handed to the caller when its status is 2xx
\* (or 304); any other status rejects the promise with an HTTPError
GotIsOk(statusCode) == (statusCode >= 200 /\ statusCode <= 299) \/ statusCode = 304
\* the retry decision gone wrong: one retry too many
GotRetriesOnceMore(retryCount) == retryCount <= RetryLimit
\* the retry decision after a retryable failure
GotRetries(retryCount) == retryCount < RetryLimit

(***************************************************************************)
(* State.                                                                  *)
(***************************************************************************)
Calls == 1..MaxCalls

NoArgs == [ op |-> "none", contentType |-> "", arg |-> << >> ]
NoResult == [ kind |-> "none", embed |-> 0, error |-> "", statusCode |-> 0 ]
NoResponse == [ kind |-> "none", statusCode |-> 0, body |-> << >> ]

VARIABLES
    pc,          \* pc[c]: "idle", "pending" (suspended in await got), "returned", "thrown"
    args,        \* args[c]: the call's operation and arguments
    heap,        \* the Embed instances that exist, in order of creation
    result,      \* result[c]: index in heap of the returned Embed, or the thrown error
    requests,    \* requests[c]: number of HTTP GET requests the call has issued
    retryCount,  \* retryCount[c]: got's retry count of the call's request
    redirects,   \* redirects[c]: number of redirects got has followed for the call
    received,    \* received[c]: statuses of the responses got answered with another GET
    last         \* last[c]: the response (or transport failure) the request ended with

vars == << pc, args, heap, result, requests, retryCount, redirects, received, last >>

Init ==
    /\ pc = [ c \in Calls |-> "idle" ]
    /\ args = [ c \in Calls |-> NoArgs ]
    /\ heap = << >>
    /\ result = [ c \in Calls |-> NoResult ]
    /\ requests = [ c \in Calls |-> 0 ]
    /\ retryCount = [ c \in Calls |-> 0 ]
    /\ redirects = [ c \in Calls |-> 0 ]
    /\ received = [ c \in Calls |-> {} ]
    /\ last = [ c \in Calls |-> NoResponse ]

Thrown(kind, statusCode) ==
    [ kind |-> "thrown", embed |-> 0, error |-> kind, statusCode |-> statusCode ]
Returned(ref) == [ kind |-> "returned", embed |-> ref, error |-> "", statusCode |-> 0 ]

\* the fields gone wrong: the payload is stored without its "=" padding
EmbedFieldsUnpadded(contentType, base64Data) ==
    [ contentType |-> contentType,
      base64Data |-> SelectSeq(base64Data, LAMBDA ch : ch # "=") ]
\* the Embed's two readonly fields
EmbedFields(contentType, base64Data) ==
    [ contentType |-> contentType, base64Data |-> base64Data ]

\* constructor body: throws when isURL(base64Data)
ConstructorThrows(base64Data) == isURL(base64Data)

\* construction gone wrong: one instance is kept and reused, so a later
\* construction overwrites the fields of the Embed made first
ConstructReusing(c, contentType, base64Data) ==
    IF ConstructorThrows(base64Data)
    THEN /\ pc' = [ pc EXCEPT ![c] = "thrown" ]
         /\ result' = [ result EXCEPT ![c] = Thrown("InvalidBase64Data", 0) ]
         /\ heap' = heap
    ELSE /\ pc' = [ pc EXCEPT ![c] = "returned" ]
         /\ heap' = IF heap = << >>
                    THEN << EmbedFields(contentType, base64Data) >>
                    ELSE [ heap EXCEPT ![1] = EmbedFields(contentType, base64Data) ]
         /\ result' = [ result EXCEPT ![c] = Returned(1) ]
\* construction gone wrong: the content type is read from a variable every
\* call writes, so it is the one of the call that started last
ConstructSharedType(c, contentType, base64Data) ==
    LET started == { d \in Calls : args[d].op # "none" /\ d # c }
        shared == IF started = {} THEN contentType
                  ELSE args[SetMax(started)].contentType
    IN IF ConstructorThrows(base64Data)
       THEN /\ pc' = [ pc EXCEPT ![c] = "thrown" ]
            /\ result' = [ result EXCEPT ![c] = Thrown("InvalidBase64Data", 0) ]
            /\ heap' = heap
       ELSE /\ pc' = [ pc EXCEPT ![c] = "returned" ]
            /\ heap' = Append(heap, EmbedFields(shared, base64Data))
            /\ result' = [ result EXCEPT ![c] = Returned(Len(heap) + 1) ]

\* new Embed(contentType, base64Data) evaluated by call c: the instance joins
\* the heap and is returned, or the constructor throws and no instance is kept
Construct(c, contentType, base64Data) ==
    IF ConstructorThrows(base64Data)
    THEN /\ pc' = [ pc EXCEPT ![c] = "thrown" ]
         /\ result' = [ result EXCEPT ![c] = Thrown("InvalidBase64Data", 0) ]
         /\ heap' = heap
    ELSE /\ pc' = [ pc EXCEPT ![c] = "returned" ]
         /\ heap' = Append(heap, EmbedFields(contentType, base64Data))
         /\ result' = [ result EXCEPT ![c] = Returned(Len(heap) + 1) ]

\* new Embed(contentType, base64Data) called directly
NewEmbed(c, contentType, base64Data) ==
    /\ pc[c] = "idle"
    /\ args' = [ args EXCEPT ![c] =
                   [ op |-> "new", contentType |-> contentType, arg |-> base64Data ] ]
    /\ Construct(c, contentType, base64Data)
    /\ UNCHANGED << requests, retryCount, redirects, received, last >>

\* Embed.fromUri(contentType, uri) up to its await: got rejects at once for a
\* url it cannot request, else issues the GET and the call is suspended
FromUri(c, contentType, uri) ==
    /\ pc[c] = "idle"
    /\ args' = [ args EXCEPT ![c] =
                   [ op |-> "fromUri", contentType |-> contentType, arg |-> uri ] ]
    /\ IF GotAcceptsUrl(uri)
       THEN /\ pc' = [ pc EXCEPT ![c] = "pending" ]
            /\ requests' = [ requests EXCEPT ![c] = 1 ]
            /\ UNCHANGED result
       ELSE /\ pc' = [ pc EXCEPT ![c] = "thrown" ]
            /\ result' = [ result EXCEPT ![c] = Thrown("RequestError", 0) ]
            /\ UNCHANGED requests
    /\ UNCHANGED << heap, retryCount, redirects, received, last >>

Response(statusCode, body) == [ kind |-> "response", statusCode |-> statusCode, body |-> body ]
Failure(kind) == [ kind |-> kind, statusCode |-> 0, body |-> << >> ]
IsRetryable(resp) ==
    \/ resp.kind \in FailureKinds
    \/ resp.kind = "response" /\ resp.statusCode \in GotRetryStatusCodes

RECURSIVE SumTo(_, _)
SumTo(f, n) == IF n = 0 THEN 0 ELSE f[n] + SumTo(f, n - 1)
\* redirect answers given so far
RedirectsServed == SumTo(redirects, MaxCalls)
\* transport failures and retryable answers given so far
FailuresServed ==
    SumTo([ c \in Calls |->
              retryCount[c] + IF pc[c] = "thrown" /\ IsRetryable(last[c]) THEN 1 ELSE 0 ],
          MaxCalls)

\* got re-issues the request
Reissue(c, resp) ==
    /\ requests' = [ requests EXCEPT ![c] = @ + 1 ]
    /\ received' = [ received EXCEPT ![c] =
                       IF resp.kind = "response" THEN @ \cup { resp.statusCode } ELSE @ ]
    /\ UNCHANGED << pc, args, heap, result, last >>

\* the promise settles with an error
Reject(c, resp, kind) ==
    /\ pc' = [ pc EXCEPT ![c] = "thrown" ]
    /\ result' = [ result EXCEPT ![c] = Thrown(kind, resp.statusCode) ]
    /\ last' = [ last EXCEPT ![c] = resp ]
    /\ UNCHANGED << args, heap, requests, retryCount, redirects, received >>

\* a redirect answer: got follows it with a new GET (got's maxRedirects, 10, is
\* beyond the MaxRedirectsServed redirects of a run)
OnRedirect(c, statusCode) ==
    /\ pc[c] = "pending"
    /\ statusCode \in GotRedirectStatusCodes
    /\ RedirectsServed < MaxRedirectsServed
    /\ redirects' = [ redirects EXCEPT ![c] = @ + 1 ]
    /\ Reissue(c, Response(statusCode, << >>))
    /\ UNCHANGED retryCount

\* a retryable answer or a transport failure: got retries, or gives up
OnRetryable(c, resp) ==
    /\ pc[c] = "pending"
    /\ IsRetryable(resp)
    /\ FailuresServed < MaxFailures
    /\ IF GotRetries(retryCount[c])
       THEN /\ retryCount' = [ retryCount EXCEPT ![c] = @ + 1 ]
            /\ Reissue(c, resp)
            /\ UNCHANGED redirects
       ELSE Reject(c, resp, IF resp.kind = "response" THEN "HTTPError" ELSE "RequestError")

\* any other status that is not ok: HTTPError
OnHttpError(c, statusCode) ==
    /\ pc[c] = "pending"
    /\ ~ GotIsOk(statusCode)
    /\ statusCode \notin GotRetryStatusCodes \cup GotRedirectStatusCodes
    /\ Reject(c, Response(statusCode, << >>), "HTTPError")

\* the status check gone wrong: only error statuses are rejected
StatusRejectedFrom300(statusCode) == statusCode >= 300
\* the status check gone wrong: left out
StatusRejectedNever(statusCode) == FALSE
\* if (response.statusCode !== 200) throw
StatusRejected(statusCode) == statusCode # 200

\* got resolves; fromUri resumes: the status check, then
\* new Embed(contentType, response.body.toString('base64'))
OnResolved(c, statusCode, body) ==
    /\ pc[c] = "pending"
    /\ GotIsOk(statusCode)
    /\ last' = [ last EXCEPT ![c] = Response(statusCode, body) ]
    /\ IF StatusRejected(statusCode)
       THEN /\ pc' = [ pc EXCEPT ![c] = "thrown" ]
            /\ result' = [ result EXCEPT ![c] = Thrown("GotStatusCode", statusCode) ]
            /\ UNCHANGED heap
       ELSE Construct(c, args[c].contentType, Base64Encode(body))
    /\ UNCHANGED << args, requests, retryCount, redirects, received >>

\* one answer arrives for call c
Receive(c, statuses, bodies) ==
    \/ \E s \in statuses : OnRedirect(c, s)
    \/ \E s \in statuses : OnRetryable(c, Response(s, << >>))
    \/ \E k \in FailureKinds : OnRetryable(c, Failure(k))
    \/ \E s \in statuses : OnHttpError(c, s)
    \/ \E s \in statuses, b \in bodies : OnResolved(c, s, IF s = 200 THEN b ELSE << >>)

\* several calls in flight together
Next ==
    \/ \E c \in Calls, t \in ContentTypes, d \in InlineSamples : NewEmbed(c, t, d)
    \/ \E c \in Calls, t \in ContentTypes, u \in Uris : FromUri(c, t, u)
    \/ \E c \in Calls : Receive(c, StatusSamples, BodySamples)
Spec == Init /\ [][Next]_vars

\* one inline construction, over every base64Data string of InlineData
NextInline ==
    /\ pc[1] = "idle"
    /\ \E t \in ContentTypes, d \in InlineData : NewEmbed(1, t, d)
SpecInline == Init /\ [][NextInline]_vars

\* one fetch, over every body of Bodies
NextFetch ==
    \/ \E t \in ContentTypes, u \in Uris : FromUri(1, t, u)
    \/ Receive(1, Statuses, Bodies)
SpecFetch == Init /\ [][NextFetch]_vars

(***************************************************************************)
(* Properties.                                                             *)
(***************************************************************************)
Done(c) == pc[c] \in { "returned", "thrown" }
IsNew(c) == args[c].op = "new"
IsFetch(c) == args[c].op = "fromUri"
\* the Embed call c returned
EmbedOf(c) == heap[result[c].embed]
\* the statuses of all responses call c has received
AllReceived(c) ==
    received[c] \cup IF last[c].kind = "response" THEN { last[c].statusCode } ELSE {}
\* every instance on the heap was returned by exactly one call
NoStrayEmbed == Len(heap) = Cardinality({ c \in Calls : pc[c] = "returned" })

\* C1: an inline construction whose base64Data parses as a URL throws the
\* "Invalid base64 data" error and leaves no Embed instance behind.
C1_UrlPayloadRejected ==
    \A c \in Calls :
        IsNew(c) /\ UrlParses(args[c].arg) =>
            /\ pc[c] = "thrown"
            /\ result[c] = Thrown("InvalidBase64Data", 0)
            /\ heap = << >>
C1_Witness ==
    \E c \in Calls : IsNew(c) /\ args[c].arg = HttpsExample /\ pc[c] = "thrown"

\* C2: an inline construction with a well-formed base64 text succeeds, and the
\* Embed holds exactly that text and exactly the given content type.
C2_Base64PayloadKept ==
    \A c \in Calls :
        IsNew(c) /\ IsBase64(args[c].arg) =>
            /\ pc[c] = "returned"
            /\ EmbedOf(c).base64Data = args[c].arg
            /\ EmbedOf(c).contentType = args[c].contentType
C2_Witness ==
    \E c \in Calls :
        /\ IsNew(c) /\ pc[c] = "returned"
        /\ args[c].arg = << "a","G","V","s","b","G","8","=" >>

\* C3: a fetch that ends with a 200 response of body B returns an Embed with
\* the call's content type whose payload is the base64 text of B, so that
\* decoding the payload gives B back.
C3_FetchedPayloadIsBody ==
    \A c \in Calls :
        IsFetch(c) /\ Done(c) /\ last[c].kind = "response" /\ last[c].statusCode = 200 =>
            /\ pc[c] = "returned"
            /\ EmbedOf(c).contentType = args[c].contentType
            /\ IsBase64(EmbedOf(c).base64Data)
            /\ asBytes(EmbedOf(c).base64Data) = last[c].body
C3_Witness ==
    \E c \in Calls :
        IsFetch(c) /\ pc[c] = "returned" /\ last[c].body = << 3, 224, 255 >>

C6_NoPartialSuccess ==
    /\ NoStrayEmbed
    /\ \A c \in Calls :
        IsFetch(c) =>
            /\ pc[c] = "returned" =>
                 /\ last[c].kind = "response" /\ last[c].statusCode = 200
                 /\ EmbedOf(c) = EmbedFields(args[c].contentType, Base64Encode(last[c].body))
            /\ Done(c) /\ ~ (last[c].kind = "response" /\ last[c].statusCode = 200) =>
                 /\ pc[c] = "thrown"
                 /\ result[c].error \in { "HTTPError", "GotStatusCode", "RequestError" }
            /\ pc[c] = "pending" => result[c] = NoResult
C6_Witness ==
    \E c \in Calls :
        /\ IsFetch(c) /\ pc[c] = "thrown" /\ last[c].kind = "aborted"
        /\ result[c] = Thrown("RequestError", 0)

\* C7: an inline construction with a text that is neither well-formed base64
\* nor a URL succeeds, and the raw-byte view of that Embed is a DecodeError.
C7_MalformedPayloadDecodeError ==
    \A c \in Calls :
        IsNew(c) /\ ~ IsBase64(args[c].arg) /\ ~ UrlParses(args[c].arg) =>
            /\ pc[c] = "returned"
            /\ EmbedOf(c).base64Data = args[c].arg
            /\ asBytes(EmbedOf(c).base64Data) = DecodeError
C7_Witness ==
    \E c \in Calls :
        /\ IsNew(c) /\ pc[c] = "returned"
        /\ args[c].arg = << "a","G","V","s","b","G","8","!" >>

\* C8: no step changes or removes an Embed that exists: every instance keeps
\* the content type and the payload it was created with.
C8_EmbedsImmutable ==
    [][ /\ Len(heap') >= Len(heap)
        /\ \A i \in 1..Len(heap) : heap'[i] = heap[i] ]_vars
C8_Witness ==
    /\ Len(heap) = 2
    /\ heap[1] # heap[2]
    /\ \E c \in Calls : IsFetch(c) /\ pc[c] = "returned"

\* the outcome of a call run alone, from its arguments and its last response
NoFields == [ contentType |-> "", base64Data |-> << >> ]
Fails(kind, statusCode) ==
    [ returns |-> FALSE, fields |-> NoFields, error |-> kind, statusCode |-> statusCode ]
Yields(contentType, base64Data) ==
    [ returns |-> TRUE, fields |-> EmbedFields(contentType, base64Data),
      error |-> "", statusCode |-> 0 ]
AloneOutcome(a, resp) ==
    IF a.op = "new"
    THEN IF UrlParses(a.arg) THEN Fails("InvalidBase64Data", 0)
         ELSE Yields(a.contentType, a.arg)
    ELSE IF ~ GotAcceptsUrl(a.arg) \/ resp.kind # "response" THEN Fails("RequestError", 0)
    ELSE IF resp.statusCode = 200
    THEN Yields(a.contentType, Base64Encode(resp.body))
    ELSE Fails(IF GotIsOk(resp.statusCode) THEN "GotStatusCode" ELSE "HTTPError",
               resp.statusCode)
\* the outcome call c has come to
Outcome(c) ==
    [ returns |-> pc[c] = "returned",
      fields |-> IF pc[c] = "returned" THEN EmbedOf(c) ELSE NoFields,
      error |-> result[c].error, statusCode |-> result[c].statusCode ]

\* C9: whatever the interleaving, the outcome of a finished call is the one
\* it has when run alone: a function of its own arguments and its own last
\* response.
C9_OutcomeIsOwn ==
    \A c \in Calls : Done(c) => Outcome(c) = AloneOutcome(args[c], last[c])
C9_Witness ==
    \E c, d \in Calls :
        /\ c # d
        /\ IsFetch(c) /\ pc[c] = "returned" /\ redirects[c] > 0
        /\ IsFetch(d) /\ pc[d] = "pending" /\ retryCount[d] > 0
        /\ args[c].contentType # args[d].contentType

\* C10: a fetch never fails with the constructor's "Invalid base64 data"
\* error: the base64 text of a body is never a URL, so a fetch that ended with
\* a 200 response returned its Embed.
C10_GuardNeverRejectsFetched ==
    \A c \in Calls :
        IsFetch(c) =>
            /\ result[c] # Thrown("InvalidBase64Data", 0)
            /\ (Done(c) /\ last[c].kind = "response" /\ last[c].statusCode = 200
                  => pc[c] = "returned" /\ ~ UrlParses(EmbedOf(c).base64Data))
C10_Witness ==
    \E c \in Calls :
        /\ IsFetch(c) /\ pc[c] = "returned"
        /\ last[c].body = << >> /\ EmbedOf(c).base64Data = << >>

====
